---- MODULE Spec2Model ----
(***************************************************************************)
(* cargo-uefi: resolution of the binary target of a Cargo project          *)
(* (get_binary_name, find_binary_name) and the staging/launch pipeline of  *)
(* main, modelled from src/src/main.rs and src/src/error.rs.               *)
(*                                                                         *)
(* Rust's Option<T> is modelled as a sequence of length at most one:       *)
(* <<>> is None and <<v>> is Some(v).  A String is the sequence of its     *)
(* characters, a character its code point; the names are ASCII.  A path is *)
(* the sequence of its components, the first being "/" when it is          *)
(* absolute.                                                               *)
(***************************************************************************)
EXTENDS Integers, Sequences, FiniteSets, TLC

VARIABLES
  fs,            \* the manifests on disk: directory -> state of its Cargo.toml
  build,         \* how many nested get_binary_name frames the stack holds
  pc,            \* position of the run
  args_bin,      \* Args.bin: Option<String>
  names,         \* what get_binary_name gave: [kind, names]
  selection,     \* what find_binary_name gave: [kind, name, err, msg]
  found,         \* the resources main has located so far
  staged,        \* what this run did to <tmp>/UEFI: "none", "partial_dirs",
                 \* "dirs", "partial_file", "copied"
  spawned,       \* number of emulator processes started
  child_status,  \* exit status of the emulator once waited for (-1: none)
  failure,       \* the error that ended the run ("none": none so far)
  exit_code      \* exit status of the tool itself (-1: still running)

vars == <<fs, build, pc, args_bin, names, selection, found, staged, spawned,
          child_status, failure, exit_code>>

(***************************************************************************)
(* Bounds of the model.                                                    *)
(***************************************************************************)
\* longest `bin` list of a top-level manifest
MaxBins == 2
\* longest `workspace.members` list of a top-level manifest
MaxMembers == 2
\* longest path, in components, that the operating system resolves
PathMax == 6
\* largest exit status the emulator returns
MaxStatus == 2

(***************************************************************************)
(* Option helpers (core::option).                                          *)
(***************************************************************************)
None == <<>>
Some(v) == <<v>>
OptionOr(a, b) == IF a # None THEN a ELSE b
UnwrapOr(a, d) == IF a # None THEN a[1] ELSE d

(***************************************************************************)
(* The manifest document: TomlConfig, TomlPackage, TomlBin, TomlWorkspace. *)
(***************************************************************************)
TomlPackage(name) == [name |-> name]
TomlBin(name) == [name |-> name]
TomlWorkspace(members) == [members |-> members]
TomlConfig(package, bin, workspace) ==
  [package |-> package, bin |-> bin, workspace |-> workspace]

\* The names of the manifests: x, p, and the four characters y " \ and
\* form feed, three of which {:?} escapes.
NameX == <<120>>
NameY == <<121, 34, 92, 12>>
NameP == <<112>>
BinNames == {NameX, NameY}
PackageNames == {NameP}

\* All sequences over S of length at most n.
SeqUpTo(S, n) == UNION {[1..k -> S] : k \in 0..n}

(***************************************************************************)
(* Paths (std::path).  The project root is /p, its members /p/a and /p/b.  *)
(***************************************************************************)
ProjectRoot == <<"/", "p">>
Dirs == {"P", "A", "B"}

\* PathBuf::join: an absolute argument replaces the path, a relative one
\* is appended component by component; nothing is normalised.
Join(path, m) == IF m # <<>> /\ m[1] = "/" THEN m ELSE path \o m

Parent(d) == CASE d = "A" -> "P" [] d = "B" -> "P" [] d = "none" -> "none"
               [] OTHER -> "/"
Child(d, c) == CASE d = "/" /\ c = "p" -> "P"
                 [] d = "P" /\ c = "a" -> "A"
                 [] d = "P" /\ c = "b" -> "B"
                 [] OTHER -> "none"

\* The directory the operating system reaches by walking the first i
\* components of path.
RECURSIVE Walk(_, _)
Walk(path, i) ==
  IF i = 0 THEN "/"
  ELSE LET d == Walk(path, i - 1)
           c == path[i]
       IN  CASE d = "none" -> "none"
             [] c = "/" -> "/"
             [] c = "." -> d
             [] c = ".." -> Parent(d)
             [] OTHER -> Child(d, c)

(***************************************************************************)
(* The state of a directory's Cargo.toml.                                  *)
(*   missing : no such file (Path::is_file is false)                       *)
(*   noopen  : a file that File::open refuses                              *)
(*   noread  : opens, but read_to_string fails (not UTF-8)                 *)
(*   noparse : read, but not a TomlConfig document                         *)
(*   ok      : read and parsed into toml                                   *)
(***************************************************************************)
EmptyToml == TomlConfig(None, None, None)
NoFile(kind) == [kind |-> kind, toml |-> EmptyToml]
File(toml) == [kind |-> "ok", toml |-> toml]

\* The file that the path dir/Cargo.toml names: a path longer than the
\* operating system resolves names nothing.
ManifestAt(disk, dir) ==
  IF Len(dir) + 1 > PathMax THEN NoFile("missing")
  ELSE LET d == Walk(dir, Len(dir))
       IN  IF d \in DOMAIN disk THEN disk[d] ELSE NoFile("missing")

(***************************************************************************)
(* get_binary_name and its three helpers.  A result is [kind, names]:      *)
(*   Ok       : Ok(names)                                                  *)
(*   Err      : Err(toml_edit::de::Error)                                  *)
(*   panic    : the expect() on a member's read_to_string panicked         *)
(*   overflow : the recursion exhausted the stack of the process           *)
(***************************************************************************)
Ok(ns) == [kind |-> "Ok", names |-> ns]
Stop(kind) == [kind |-> kind, names |-> <<>>]

\* A slip of get_name_fron_bins: map_while for filter_map, which stops at the
\* first entry that declares no name.
RECURSIVE NamesUntilUnnamed(_, _)
NamesUntilUnnamed(bins, i) ==
  IF i > Len(bins) \/ bins[i].name = None THEN <<>>
  ELSE <<bins[i].name[1]>> \o NamesUntilUnnamed(bins, i + 1)
get_name_fron_bins_map_while(toml) ==
  IF toml.bin = None THEN None
  ELSE Some(NamesUntilUnnamed(toml.bin[1], 1))

get_name_fron_bins(toml) ==
  IF toml.bin = None THEN None
  ELSE LET bins == toml.bin[1]
           Named(b) == b.name # None
           named == SelectSeq(bins, Named)
       IN  Some([i \in 1..Len(named) |-> named[i].name[1]])

get_name_from_package(toml) ==
  IF toml.package = None THEN None
  ELSE IF toml.package[1].name = None THEN None
  ELSE Some(<<toml.package[1].name[1]>>)

RECURSIVE get_binary_name(_, _, _, _, _)
RECURSIVE collect_members(_, _, _, _, _, _)

\* The iterator chain of get_name_from_workspace, members i.. of mems: each
\* member is tested, opened, read and resolved before the next one is
\* looked at.
collect_members(disk, mems, i, root, depth, stack) ==
  IF i > Len(mems) THEN Ok(<<>>)
  ELSE
    LET ws == Join(root, mems[i])
        f == ManifestAt(disk, ws)
        here ==
          CASE f.kind = "missing" -> Ok(<<>>)
            [] f.kind = "noopen" -> Ok(<<>>)
            [] f.kind = "noread" -> Stop("panic")
            [] OTHER ->
                 LET r == get_binary_name(disk, f, ws, depth + 1, stack)
                 IN  IF r.kind = "Err" THEN Ok(<<>>) ELSE r
    IN  IF here.kind # "Ok" THEN here
        ELSE LET rest == collect_members(disk, mems, i + 1, root, depth, stack)
             IN  IF rest.kind # "Ok" THEN rest
                 ELSE Ok(here.names \o rest.names)

\* Option<Vec<String>> wrapped in a result: Ok(<<>>) is None, Ok(<<v>>) is
\* Some(v).
get_name_from_workspace(disk, toml, root, depth, stack) ==
  IF toml.workspace = None THEN Ok(None)
  ELSE IF toml.workspace[1].members = None THEN Ok(None)
  ELSE LET r == collect_members(disk, toml.workspace[1].members[1], 1, root,
                                depth, stack)
       IN  IF r.kind = "Ok" THEN Ok(Some(r.names)) ELSE r

\* content is the text handed in, as a file state of kind noparse or ok.
get_binary_name(disk, content, root, depth, stack) ==
  IF depth > stack THEN Stop("overflow")
  ELSE IF content.kind # "ok" THEN Stop("Err")
  ELSE LET toml == content.toml
           w == get_name_from_workspace(disk, toml, root, depth, stack)
       IN  IF w.kind # "Ok" THEN w
           ELSE Ok(UnwrapOr(OptionOr(OptionOr(w.names,
                                              get_name_fron_bins(toml)),
                                     get_name_from_package(toml)),
                            <<>>))


(***************************************************************************)
(* error.rs and find_binary_name.  A message is the sequence of what       *)
(* format! writes: the literals of the format string and, for each {} or   *)
(* {:?}, the characters written for the argument.                          *)
(***************************************************************************)
ErrorKind == {"NotAbleDetermineBinary", "BinaryNotFound"}

\* Error::new
ErrorNew(kind, msg) == [kind |-> "Err", name |-> <<>>, err |-> kind, msg |-> msg]

Lit(text) == [lit |-> text, chars |-> <<>>]
Arg(chars) == [lit |-> "", chars |-> chars]

\* The lower-case hexadecimal digits of n, without leading zeros.
HexDigit(d) == IF d < 10 THEN 48 + d ELSE 87 + d
RECURSIVE Hex(_)
Hex(n) == IF n < 16 THEN <<HexDigit(n)>>
          ELSE Hex(n \div 16) \o <<HexDigit(n % 16)>>

\* char::escape_debug_ext as {:?} of a str calls it (double quotes escaped,
\* single quotes not), on an ASCII character: \0, \t, \r, \n, \\ and \" for
\* NUL, tab, carriage return, line feed, backslash and double quote; the
\* printable characters 0x20..0x7e as they are; the other control
\* characters and DEL as \u{..} with their hexadecimal code.
EscapeDebug(c) ==
  CASE c = 0 -> <<92, 48>>
    [] c = 9 -> <<92, 116>>
    [] c = 13 -> <<92, 114>>
    [] c = 10 -> <<92, 110>>
    [] c = 92 -> <<92, 92>>
    [] c = 34 -> <<92, 34>>
    [] c \in (32..126) \ {34, 92} -> <<c>>
    [] c \in ((1..31) \cup {127}) \ {9, 10, 13} ->
         <<92, 117, 123>> \o Hex(c) \o <<125>>

RECURSIVE EscapeAll(_, _)
EscapeAll(str, i) ==
  IF i > Len(str) THEN <<>>
  ELSE EscapeDebug(str[i]) \o EscapeAll(str, i + 1)

\* {:?} of a String: its characters, escaped, between double quotes.
DebugString(str) == <<34>> \o EscapeAll(str, 1) \o <<34>>

\* {:?} of a Vec<String>: the elements' {:?}, ", " between them, in brackets.
RECURSIVE DebugElems(_, _)
DebugElems(v, i) ==
  IF i > Len(v) THEN <<>>
  ELSE (IF i > 1 THEN <<44, 32>> ELSE <<>>) \o DebugString(v[i])
       \o DebugElems(v, i + 1)
DebugVec(v) == <<91>> \o DebugElems(v, 1) \o <<93>>

\* A slip of Vec::contains: only the first element is compared.
ContainsFirst(v, e) == Len(v) >= 1 /\ v[1] = e

\* Vec::contains
Contains(v, e) == \E i \in 1..Len(v) : v[i] = e

\* A slip of the match of find_binary_name: with no requested name the first
\* candidate is taken whenever there is one.
select_binary_first(app_name, ns) ==
  CASE app_name = None /\ Len(ns) >= 1 ->
         [kind |-> "Ok", name |-> ns[1], err |-> "none", msg |-> <<>>]
    [] app_name = None /\ Len(ns) = 0 ->
         ErrorNew("NotAbleDetermineBinary",
                  <<Lit("multiple candidates exists, not ablt to determine. "),
                    Arg(DebugVec(ns))>>)
    [] app_name # None /\ Contains(ns, app_name[1]) ->
         [kind |-> "Ok", name |-> app_name[1], err |-> "none", msg |-> <<>>]
    [] OTHER ->
         ErrorNew("BinaryNotFound",
                  <<Lit("binary "), Arg(app_name[1]), Lit(" is not found")>>)

\* The match of find_binary_name on (app_name, names).
select_binary(app_name, ns) ==
  CASE app_name = None /\ Len(ns) = 1 ->
         [kind |-> "Ok", name |-> ns[1], err |-> "none", msg |-> <<>>]
    [] app_name = None /\ Len(ns) # 1 ->
         ErrorNew("NotAbleDetermineBinary",
                  <<Lit("multiple candidates exists, not ablt to determine. "),
                    Arg(DebugVec(ns))>>)
    [] app_name # None /\ Contains(ns, app_name[1]) ->
         [kind |-> "Ok", name |-> app_name[1], err |-> "none", msg |-> <<>>]
    [] OTHER ->
         ErrorNew("BinaryNotFound",
                  <<Lit("binary "), Arg(app_name[1]), Lit(" is not found")>>)

\* What the `?` on get_binary_name's result leaves of the call: a parse
\* error is returned, a panic or a stack overflow ends the process.
propagate(r) ==
  [kind |-> r.kind, name |-> <<>>,
   err |-> IF r.kind = "Err" THEN "TomlError" ELSE "none", msg |-> <<>>]

find_binary_name(app_name, r) ==
  IF r.kind # "Ok" THEN propagate(r) ELSE select_binary(app_name, r.names)

(***************************************************************************)
(* The inputs: the manifests on disk and the arguments.                    *)
(***************************************************************************)
Packages ==
  {None, Some(TomlPackage(None))}
    \cup {Some(TomlPackage(Some(n))) : n \in PackageNames}
BinEntries == {TomlBin(None)} \cup {TomlBin(Some(n)) : n \in BinNames}
BinLists == {None} \cup {Some(b) : b \in SeqUpTo(BinEntries, MaxBins)}

\* Member paths of the top-level manifest, and of a manifest below it.
RootMembers == {<<"a">>, <<"b">>}
Workspaces ==
  {None, Some(TomlWorkspace(None))}
    \cup {Some(TomlWorkspace(Some(m))) : m \in SeqUpTo(RootMembers, MaxMembers)}

RootManifests ==
  {File(TomlConfig(p, b, w)) : p \in Packages, b \in BinLists, w \in Workspaces}

Bin1(n) == Some(<<TomlBin(Some(n))>>)
Members1(m) == Some(TomlWorkspace(Some(<<m>>)))
Pkg(n) == Some(TomlPackage(Some(n)))

\* /p/a/Cargo.toml: absent or unusable, a plain package, a nested
\* workspace, or a workspace that names itself or its ancestor.
ManifestsA ==
  {NoFile("missing"), NoFile("noopen"), NoFile("noread"), NoFile("noparse"),
   File(TomlConfig(None, Bin1(NameX), None)),
   File(TomlConfig(Pkg(NameP), None, None)),
   File(TomlConfig(None, Bin1(NameY), Members1(<<"..", "b">>))),
   File(TomlConfig(Pkg(NameP), None, Members1(<<".">>))),
   File(TomlConfig(None, Bin1(NameX), Members1(<<"..">>))),
   File(TomlConfig(None, Bin1(NameX), Members1(<<"/", "p", "a">>)))}

ManifestsB ==
  {NoFile("missing"), NoFile("noread"),
   File(TomlConfig(None, Bin1(NameX), None)),
   File(TomlConfig(None, Bin1(NameY), None)),
   File(TomlConfig(Pkg(NameP), Some(<<TomlBin(Some(NameY)), TomlBin(Some(NameX))>>),
                   None))}

Disks(roots) ==
  {[d \in Dirs |-> CASE d = "P" -> r [] d = "A" -> a [] OTHER -> b] :
     r \in roots, a \in ManifestsA, b \in ManifestsB}

AppNames == {None} \cup {Some(n) : n \in BinNames}

\* The stack of the build holds either fewer frames than the longest path
\* the operating system resolves has components, or more: which, depends on
\* the build and on the platform.
Stacks == {Cardinality(Dirs), PathMax + 1}

NoNames == Stop("none")
NoSelection == [kind |-> "none", name |-> <<>>, err |-> "none", msg |-> <<>>]

(***************************************************************************)
(* SpecResolve: get_binary_name and find_binary_name called, as the tests  *)
(* call them, on the text of /p/Cargo.toml with /p as the root.            *)
(***************************************************************************)
InitResolve ==
  /\ fs \in Disks(RootManifests \cup {NoFile("noparse")})
  /\ build \in Stacks
  /\ pc = "entry"
  /\ args_bin = None
  /\ names = NoNames
  /\ selection = NoSelection
  /\ found = {}
  /\ staged = "none"
  /\ spawned = 0
  /\ child_status = -1
  /\ failure = "none"
  /\ exit_code = -1

CallGetBinaryName ==
  /\ pc = "entry"
  /\ names' = get_binary_name(fs, fs["P"], ProjectRoot, 1, build)
  /\ pc' = "resolved"
  /\ UNCHANGED <<fs, build, args_bin, selection, found, staged, spawned,
                 child_status, failure, exit_code>>

CallFindBinaryName ==
  /\ pc = "entry"
  /\ \E app \in AppNames :
       LET r == get_binary_name(fs, fs["P"], ProjectRoot, 1, build)
       IN  /\ args_bin' = app
           /\ names' = r
           /\ selection' = find_binary_name(app, r)
  /\ pc' = "selected"
  /\ UNCHANGED <<fs, build, found, staged, spawned, child_status, failure,
                 exit_code>>

NextResolve == CallGetBinaryName \/ CallFindBinaryName

SpecResolve == InitResolve /\ [][NextResolve]_vars


(***************************************************************************)
(* Spec: one run of main.  Each `?` of main is an action that either goes  *)
(* on to the next statement or ends the process with the error.            *)
(***************************************************************************)
\* Top-level manifests of the runs of main: at most one bin entry and one
\* member.
MainManifests ==
  {f \in RootManifests :
     /\ f.toml.bin # None => Len(f.toml.bin[1]) <= 1
     /\ (f.toml.workspace # None /\ f.toml.workspace[1].members # None)
          => Len(f.toml.workspace[1].members[1]) <= 1}
     \cup {NoFile("missing"), NoFile("noopen"), NoFile("noread"),
           NoFile("noparse")}

Init ==
  /\ fs \in Disks(MainManifests)
  /\ build \in Stacks
  /\ pc = "get_project_root"
  /\ args_bin \in AppNames
  /\ names = NoNames
  /\ selection = NoSelection
  /\ found = {}
  /\ staged = "none"
  /\ spawned = 0
  /\ child_status = -1
  /\ failure = "none"
  /\ exit_code = -1

\* The exit status of a process whose main returned Err, panicked, or was
\* aborted on stack exhaustion (SIGABRT, as a shell reports it).
ExitCodeOf(kind) ==
  CASE kind = "panic" -> 101 [] kind = "overflow" -> 134 [] OTHER -> 1

\* main returns Err(reason): nothing after the `?` runs.
Fail(reason, kind) ==
  /\ pc' = "exited"
  /\ failure' = reason
  /\ exit_code' = ExitCodeOf(kind)

\* main goes on to the statement at next, having located what.
Proceed(next, what) ==
  /\ pc' = next
  /\ found' = found \cup what
  /\ UNCHANGED <<failure, exit_code>>

GetProjectRoot ==
  /\ pc = "get_project_root"
  /\ \E has_lock \in BOOLEAN :
       IF has_lock THEN Proceed("get_qemu_executable", {"root"})
       ELSE Fail("project root directory not found", "Err")
              /\ UNCHANGED found
  /\ UNCHANGED <<fs, build, args_bin, names, selection, staged, spawned,
                 child_status>>

GetQemuExecutable ==
  /\ pc = "get_qemu_executable"
  /\ \E on_path \in BOOLEAN :
       IF on_path THEN Proceed("get_ovmf", {"qemu"})
       ELSE Fail("qemu-system-x86_64 is not found", "Err") /\ UNCHANGED found
  /\ UNCHANGED <<fs, build, args_bin, names, selection, staged, spawned,
                 child_status>>

\* A slip of main: the result of get_ovmf is not checked with `?`.
GetOvmfUnchecked ==
  /\ pc = "get_ovmf"
  /\ \E is_file \in BOOLEAN :
       Proceed("open_cargo_toml", IF is_file THEN {"ovmf"} ELSE {})
  /\ UNCHANGED <<fs, build, args_bin, names, selection, staged, spawned,
                 child_status>>

GetOvmf ==
  /\ pc = "get_ovmf"
  /\ \E is_file \in BOOLEAN :
       IF is_file THEN Proceed("open_cargo_toml", {"ovmf"})
       ELSE Fail("OVMF.fd is not found", "Err") /\ UNCHANGED found
  /\ UNCHANGED <<fs, build, args_bin, names, selection, staged, spawned,
                 child_status>>

\* File::open(project_root/Cargo.toml)? and read_to_string(..)?
ReadCargoToml ==
  /\ pc = "open_cargo_toml"
  /\ LET f == ManifestAt(fs, ProjectRoot)
     IN  CASE f.kind \in {"missing", "noopen"} ->
                Fail("Cargo.toml cannot be opened", "Err") /\ UNCHANGED found
           [] f.kind = "noread" ->
                Fail("Cargo.toml cannot be read", "Err") /\ UNCHANGED found
           [] OTHER -> Proceed("find_binary_name", {"manifest"})
  /\ UNCHANGED <<fs, build, args_bin, names, selection, staged, spawned,
                 child_status>>

FindBinaryName ==
  /\ pc = "find_binary_name"
  /\ LET r == get_binary_name(fs, fs["P"], ProjectRoot, 1, build)
         sel == find_binary_name(args_bin, r)
     IN  /\ names' = r
         /\ selection' = sel
         /\ IF sel.kind = "Ok" THEN Proceed("get_uefi_app", {"target"})
            ELSE Fail(sel.err, sel.kind) /\ UNCHANGED found
  /\ UNCHANGED <<fs, build, args_bin, staged, spawned, child_status>>

GetUefiApp ==
  /\ pc = "get_uefi_app"
  /\ \E is_file \in BOOLEAN :
       IF is_file THEN Proceed("create_dir_all", {"artifact"})
       ELSE Fail("app is not found", "Err") /\ UNCHANGED found
  /\ UNCHANGED <<fs, build, args_bin, names, selection, staged, spawned,
                 child_status>>

\* create_dir_all makes the directories outermost first: when it fails,
\* some of them may have been made.
CreateDirAll ==
  /\ pc = "create_dir_all"
  /\ \E ok \in BOOLEAN :
       IF ok THEN /\ staged' = "dirs"
                  /\ Proceed("copy", {})
       ELSE /\ Fail("create_dir_all", "Err")
            /\ staged' \in {staged, "partial_dirs"}
            /\ UNCHANGED found
  /\ UNCHANGED <<fs, build, args_bin, names, selection, spawned,
                 child_status>>

\* std::fs::copy creates or truncates BOOTX64.EFI before it writes: when it
\* fails, it failed either before that, or with an incomplete file left.
Copy ==
  /\ pc = "copy"
  /\ \E ok \in BOOLEAN :
       IF ok THEN /\ staged' = "copied"
                  /\ Proceed("run_qemu", {})
       ELSE /\ Fail("copy", "Err")
            /\ staged' \in {staged, "partial_file"}
            /\ UNCHANGED found
  /\ UNCHANGED <<fs, build, args_bin, names, selection, spawned,
                 child_status>>

\* Command::spawn()? of run_qemu
SpawnQemu ==
  /\ pc = "run_qemu"
  /\ \E ok \in BOOLEAN :
       IF ok THEN /\ spawned' = spawned + 1
                  /\ Proceed("wait", {})
       ELSE Fail("spawn", "Err") /\ UNCHANGED <<found, spawned>>
  /\ UNCHANGED <<fs, build, args_bin, names, selection, staged,
                 child_status>>

\* process.wait() of run_qemu, the `?` of main on its result, and Ok(()):
\* the ExitStatus is dropped.
WaitQemu ==
  /\ pc = "wait"
  /\ \/ \E s \in 0..MaxStatus :
          /\ child_status' = s
          /\ pc' = "exited"
          /\ exit_code' = 0
          /\ UNCHANGED failure
     \/ Fail("wait", "Err") /\ UNCHANGED child_status
  /\ UNCHANGED <<fs, build, args_bin, names, selection, found, staged,
                 spawned>>

Next ==
  \/ GetProjectRoot
  \/ GetQemuExecutable
  \/ GetOvmf
  \/ ReadCargoToml
  \/ FindBinaryName
  \/ GetUefiApp
  \/ CreateDirAll
  \/ Copy
  \/ SpawnQemu
  \/ WaitQemu

Spec == Init /\ [][Next]_vars


(***************************************************************************)
(* Vocabulary of the claims.                                               *)
(***************************************************************************)
Resolved == pc \in {"resolved", "selected"}
RootToml == fs["P"].toml
RootParsed == fs["P"].kind = "ok"
HasMembers ==
  RootToml.workspace # None /\ RootToml.workspace[1].members # None
Range(v) == {v[i] : i \in 1..Len(v)}
Distinct(v) == \A i, j \in 1..Len(v) : v[i] = v[j] => i = j

\* The names that the entries of a bin list declare, first to last.
RECURSIVE DeclaredNames(_, _)
DeclaredNames(bins, i) ==
  IF i > Len(bins) THEN <<>>
  ELSE (IF bins[i].name = None THEN <<>> ELSE <<bins[i].name[1]>>)
       \o DeclaredNames(bins, i + 1)

\* The strings that a text shows between double quotes, first to last, read
\* back from their escaped form.  open says that position i is inside a
\* quoted string, of which cur was read so far.
Unescaped(c) ==
  CASE c = 110 -> 10 [] c = 116 -> 9 [] c = 114 -> 13 [] c = 48 -> 0
    [] OTHER -> c

HexDigitValue(d) == IF d >= 97 THEN d - 87 ELSE d - 48
RECURSIVE HexValue(_, _, _)
HexValue(text, from, to) ==
  IF to < from THEN 0
  ELSE HexValue(text, from, to - 1) * 16 + HexDigitValue(text[to])

\* The position of the first closing brace at or after j.
RECURSIVE ClosingBrace(_, _)
ClosingBrace(text, j) ==
  IF j > Len(text) \/ text[j] = 125 THEN j ELSE ClosingBrace(text, j + 1)

RECURSIVE Quoted(_, _, _, _)
Quoted(text, i, open, cur) ==
  IF i > Len(text) THEN <<>>
  ELSE IF ~open
    THEN Quoted(text, i + 1, text[i] = 34, <<>>)
  ELSE IF text[i] = 34
    THEN <<cur>> \o Quoted(text, i + 1, FALSE, <<>>)
  ELSE IF text[i] = 92 /\ i < Len(text) /\ text[i + 1] = 117
    THEN LET close == ClosingBrace(text, i + 3)
         IN  Quoted(text, close + 1, TRUE,
                    Append(cur, HexValue(text, i + 3, close - 1)))
  ELSE IF text[i] = 92 /\ i < Len(text)
    THEN Quoted(text, i + 2, TRUE, Append(cur, Unescaped(text[i + 1])))
  ELSE Quoted(text, i + 1, TRUE, Append(cur, text[i]))

\* str is written out, character by character, somewhere in text.
Occurs(str, text) ==
  \E k \in 0..(Len(text) - Len(str)) :
    SubSeq(text, k + 1, k + Len(str)) = str

(***************************************************************************)
(* C1: with no requested name, find_binary_name succeeds exactly when      *)
(* there is one candidate, and then with that candidate; with none or with *)
(* several it fails with NotAbleDetermineBinary, and the message lists     *)
(* every candidate, in order.                                              *)
(***************************************************************************)
C1_NoRequest ==
  (pc = "selected" /\ args_bin = None /\ names.kind = "Ok") =>
    LET ns == names.names
    IN  /\ selection.kind = "Ok" <=> Len(ns) = 1
        /\ Len(ns) = 1 => selection.name = ns[1]
        /\ Len(ns) # 1 =>
             /\ selection.kind = "Err"
             /\ selection.err = "NotAbleDetermineBinary"
             /\ Len(selection.msg) = 2
             /\ Quoted(selection.msg[2].chars, 1, FALSE, <<>>) = ns

C1_Witness ==
  /\ pc = "selected" /\ args_bin = None /\ names.kind = "Ok"
  /\ names.names = <<NameY, NameX>>
  /\ selection.err = "NotAbleDetermineBinary"
  /\ Quoted(selection.msg[2].chars, 1, FALSE, <<>>) = <<NameY, NameX>>

(***************************************************************************)
(* C2: with a requested name n, find_binary_name succeeds with n when n is *)
(* a candidate and fails with BinaryNotFound, naming n, when it is not; it *)
(* returns no other name and never reports NotAbleDetermineBinary.         *)
(***************************************************************************)
C2_Request ==
  (pc = "selected" /\ args_bin # None /\ names.kind = "Ok") =>
    LET n == args_bin[1]
    IN  /\ n \in Range(names.names) =>
             selection.kind = "Ok" /\ selection.name = n
        /\ n \notin Range(names.names) =>
             /\ selection.kind = "Err"
             /\ selection.err = "BinaryNotFound"
             /\ \E k \in 1..Len(selection.msg) :
                  Occurs(n, selection.msg[k].chars)
        /\ selection.err # "NotAbleDetermineBinary"

C2_Witness ==
  /\ pc = "selected" /\ args_bin = Some(NameX) /\ names.kind = "Ok"
  /\ names.names = <<NameY, NameX>>
  /\ selection.kind = "Ok" /\ selection.name = NameX

(***************************************************************************)
(* C3: get_binary_name returns the candidates of the workspace when        *)
(* workspace.members is there and its expansion yields a candidate; when   *)
(* it is there and yields none, the result is the named bin entries if     *)
(* there are any, else package.name if there is one, else nothing.         *)
(***************************************************************************)
BinsThenPackage(toml) ==
  LET declared == IF toml.bin = None THEN <<>>
                  ELSE DeclaredNames(toml.bin[1], 1)
  IN  IF declared # <<>> THEN declared
      ELSE IF toml.package # None /\ toml.package[1].name # None
           THEN <<toml.package[1].name[1]>>
           ELSE <<>>

C3_WorkspacePrecedence ==
  (Resolved /\ RootParsed /\ HasMembers /\ names.kind = "Ok") =>
    LET w == get_name_from_workspace(fs, RootToml, ProjectRoot, 1, build)
    IN  IF w.names[1] # <<>> THEN names.names = w.names[1]
        ELSE names.names = BinsThenPackage(RootToml)

(***************************************************************************)
(* C4: a manifest with no workspace section, with a package.name and with  *)
(* no bin entry (no bin list, or an empty one) has exactly one candidate,  *)
(* the package.name.                                                       *)
(***************************************************************************)
C4_PackageFallback ==
  (/\ Resolved /\ RootParsed
   /\ RootToml.workspace = None
   /\ RootToml.package # None /\ RootToml.package[1].name # None
   /\ RootToml.bin \in {None, Some(<<>>)}) =>
    names = Ok(<<RootToml.package[1].name[1]>>)

(***************************************************************************)
(* C5: a manifest with no workspace section whose bin list has an entry    *)
(* with a name has as candidates exactly the names its entries declare, in *)
(* declaration order; package.name is not among them.                      *)
(***************************************************************************)
C5_ExplicitBins ==
  (/\ Resolved /\ RootParsed
   /\ RootToml.workspace = None
   /\ RootToml.bin # None
   /\ \E i \in 1..Len(RootToml.bin[1]) : RootToml.bin[1][i].name # None) =>
    /\ names = Ok(DeclaredNames(RootToml.bin[1], 1))
    /\ \A n \in PackageNames : n \notin Range(names.names)

C5_Witness ==
  /\ pc = "resolved" /\ RootParsed
  /\ RootToml.workspace = None
  /\ RootToml.package = Pkg(NameP)
  /\ RootToml.bin = Some(<<TomlBin(None), TomlBin(Some(NameY))>>)
  /\ names = Ok(<<NameY>>)

(***************************************************************************)
(* C6: a member of the workspace whose manifest is missing, cannot be      *)
(* opened, cannot be read or does not parse contributes no candidate and   *)
(* never aborts the resolution: the result is the candidates of the other  *)
(* members, in member-list order; a top-level manifest that does not parse *)
(* is an error.  Stated for members that are not workspaces themselves.    *)
(***************************************************************************)
PlainMembers ==
  \A d \in {"A", "B"} : fs[d].kind = "ok" => fs[d].toml.workspace = None

MemberYield(m) ==
  LET f == ManifestAt(fs, Join(ProjectRoot, m))
  IN  IF f.kind = "ok"
      THEN get_binary_name(fs, f, Join(ProjectRoot, m), 2, build).names
      ELSE <<>>

RECURSIVE MembersYield(_, _)
MembersYield(mems, i) ==
  IF i > Len(mems) THEN <<>>
  ELSE MemberYield(mems[i]) \o MembersYield(mems, i + 1)

C6_MembersNonFatal ==
  /\ (Resolved /\ fs["P"].kind = "noparse") => names.kind = "Err"
  /\ (Resolved /\ RootParsed /\ HasMembers /\ PlainMembers) =>
       names = Ok(MembersYield(RootToml.workspace[1].members[1], 1))

(***************************************************************************)
(* C7: once the emulator was started and has exited with status s, the     *)
(* tool exits with status s.                                               *)
(***************************************************************************)
C7_ExitStatus ==
  (pc = "exited" /\ spawned > 0 /\ child_status # -1) =>
    exit_code = child_status

(***************************************************************************)
(* C8: the candidate sequence that get_binary_name returns holds no name   *)
(* twice.                                                                  *)
(***************************************************************************)
C8_Distinct ==
  (Resolved /\ names.kind = "Ok") => Distinct(names.names)

(***************************************************************************)
(* C10: get_binary_name returns, whatever the manifests on disk: the       *)
(* recursion over workspace members does not exhaust the stack, not even   *)
(* in a build whose stack holds more frames than the longest path has      *)
(* components.                                                             *)
(***************************************************************************)
C10_Returns ==
  (Resolved /\ build > PathMax) => names.kind # "overflow"


(***************************************************************************)
(* C9: in a run of main the emulator is started at most once, and only     *)
(* after the project root, the emulator, the firmware, the manifest, one   *)
(* target and its artifact were found and the artifact was copied to the   *)
(* staging path; the staging path is touched only after all of them were   *)
(* found; a step that fails ends the run with its failure and starts no    *)
(* emulator, and only a failing create_dir_all or copy can itself have     *)
(* touched the staging path; nothing follows the end of the run and no     *)
(* step is taken twice.                                                    *)
(***************************************************************************)
Located == {"root", "qemu", "ovmf", "manifest", "target", "artifact"}

Rank(p) ==
  CASE p = "get_project_root" -> 0
    [] p = "get_qemu_executable" -> 1
    [] p = "get_ovmf" -> 2
    [] p = "open_cargo_toml" -> 3
    [] p = "find_binary_name" -> 4
    [] p = "get_uefi_app" -> 5
    [] p = "create_dir_all" -> 6
    [] p = "copy" -> 7
    [] p = "run_qemu" -> 8
    [] p = "wait" -> 9
    [] OTHER -> 10

C9_TerminalFailures ==
  /\ [](/\ spawned <= 1
        /\ spawned = 1 => (found = Located /\ staged = "copied")
        /\ staged # "none" => found = Located
        /\ "target" \in found => selection.kind = "Ok"
        /\ failure # "none" => (pc = "exited" /\ exit_code > 0))
  /\ [][/\ pc # "exited"
        /\ Rank(pc') > Rank(pc)
        /\ failure' # "none" =>
             /\ spawned' = spawned /\ found' = found
             /\ staged' # staged => pc \in {"create_dir_all", "copy"}]_vars

C9_Witness ==
  /\ pc = "exited" /\ failure = "none"
  /\ spawned = 1 /\ staged = "copied" /\ found = Located
  /\ selection.kind = "Ok" /\ child_status = 1


====
